---------------------------- MODULE Spec2Model ----------------------------
(***************************************************************************)
(* Model of the http_listener input plugin: the channel-backed buffer pool *)
(* (NewPool / pool.get / pool.put) and the /write handler                  *)
(* HttpListener.serveWrite, which reads a newline-delimited body through a *)
(* pooled buffer and hands regions of it to the parser.                    *)
(*                                                                         *)
(* Sizes are scaled down: the source's MAX_LINE_SIZE is 1,000,000 bytes,   *)
(* NewPool is called with 100 and the default MaxBodySize is 512,000,000.  *)
(* The handler only ever compares bytes with '\n', so a body is fixed by   *)
(* its length and the places of its newlines; every other byte is given a  *)
(* value of its own (100 * session + offset) so that a dropped, duplicated *)
(* or foreign byte shows.                                                  *)
(***************************************************************************)
EXTENDS Integers, Sequences, FiniteSets, TLC

\* ------------------------------------------------------------- sizes
\* Capacity of a pooled buffer (MAX_LINE_SIZE, scaled).
MAX_LINE_SIZE == 3
\* t.MaxBodySize (scaled).
MaxBodySize == 6
\* Longest request body drawn for the single-session specification.
MaxBodyLen == 7
\* The n of NewPool(n) (scaled).
PoolSize == 1

\* The tiered pool (bufferpool.go), scaled: the length of a small buffer
\* (50*1000), the counts NewPool hard-codes for the big (30) and the small (500)
\* class, and the n it is called with (100), which lies between the two.
SMALL_SIZE == 2
BIG_COUNT == 1
SMALL_COUNT == 3
TieredN == 2
\* The most buffers one caller of the tiered pool keeps at a time.
MaxOut == 2

\* The longest body served twice under different splits into reads.
ChunkLen == 4

\* The largest value a metric of a snapshot takes.
MaxMetric == 1

NL == 10
StatusNoContent == 204
StatusBadRequest == 400
StatusRequestEntityTooLarge == 413

Sessions == {1, 2}

\* ------------------------------------------------------------- helpers
Min(a, b) == IF a < b THEN a ELSE b

SetMax(S) == CHOOSE x \in S : \A y \in S : y <= x

SetMin(S) == CHOOSE x \in S : \A y \in S : x <= y

\* make([]byte, size): a zeroed slice.
make(size) == [j \in 1..size |-> 0]

\* bytes.LastIndexByte(b, c): the 0-based index of the last c in b, or -1.
LastIndexByte(b, c) ==
    LET S == {j \in 1..Len(b) : b[j] = c}
    IN  IF S = {} THEN -1 ELSE SetMax(S) - 1

\* The bodies a session may receive: every length up to maxlen and every
\* placement of newlines.
Bodies(s, maxlen) ==
    UNION { { [k \in 1..len |-> IF k \in nl THEN NL ELSE 100 * s + k] :
                nl \in SUBSET (1..len) } : len \in 0..maxlen }

\* A request: the bytes its body stream yields once decoded, how that stream
\* ends ("EOF", or "broken": a closed or timed-out connection, or corrupt
\* compressed data), the Content-Encoding ("identity", "gzip", or "badgzip":
\* gzip declared over a body without a valid gzip header) and the declared
\* ContentLength (-1 when absent).
Requests(s, maxlen) ==
    UNION { { [data |-> d, end |-> e, enc |-> c, ContentLength |-> l] :
                e \in {"EOF", "broken"},
                c \in {"identity", "gzip", "badgzip"},
                l \in {-1, Len(d)} } : d \in Bodies(s, maxlen) }

\* http.MaxBytesReader(res, r, t.MaxBodySize): the bytes it lets through ...
LimitedData(r) ==
    IF Len(r.data) > MaxBodySize THEN SubSeq(r.data, 1, MaxBodySize) ELSE r.data

\* ... and the error that follows them.
LimitedEnd(r) ==
    IF Len(r.data) > MaxBodySize THEN "http: request body too large" ELSE r.end

\* ------------------------------------------------------------- state
VARIABLES
    buffers,   \* pool.buffers: the channel of idle buffers, oldest first
    mem,       \* the contents of every buffer allocated so far, by identity
    req,       \* the request each session serves
    ses,       \* serveWrite's position and locals, per session
    obs,       \* what each session has done so far: regions handed to parse
               \* (and how many body bytes had been read before the one at
               \* buf[0] when each was handed over), responses written, pool
               \* calls made, buffers owned, Read calls made on the body where
               \* io.ReadFull is followed call by call
    bigBuffers,    \* tiered pool: the channel of idle big buffers (their lengths)
    smallBuffers,  \* tiered pool: the channel of idle small buffers
    out,           \* tiered pool: the buffers each caller got and has not put
    lastGet,       \* tiered pool: the last get, [maxSize, len of the result]
    mesos,         \* mesos collector: the Mesos struct's MasterCols and SlaveCols
    gather,        \* mesos collector: gatherMainMetrics's position and locals
    acc            \* mesos collector: the points handed to acc.AddFields

lvars == <<buffers, mem, req, ses, obs>>

tvars == <<bigBuffers, smallBuffers, out, lastGet>>

mvars == <<mesos, gather, acc>>

vars == <<buffers, mem, req, ses, obs, bigBuffers, smallBuffers, out, lastGet,
          mesos, gather, acc>>

\* serveWrite before its first statement.
InitSes ==
    [pc |-> "start", ret |-> "none", gz |-> "none", pos |-> 0, buf |-> 0,
     bufstart |-> 0, n |-> 0, err |-> "nil", return400 |-> FALSE]

InitObs ==
    [dispatched |-> <<>>, offsets |-> <<>>, rejected |-> FALSE, events |-> <<>>,
     status |-> <<>>, held |-> {}, gets |-> 0, puts |-> 0, strayPuts |-> 0,
     closes |-> 0, reads |-> 0]

\* NewPool(n): a channel of capacity n filled with n zeroed buffers.
NewPool(n) == [j \in 1..n |-> j]

NewPoolMem(n) == [j \in 1..n |-> make(MAX_LINE_SIZE)]

\* ------------------------------------------------------------- the pool
\* pool.get: receive from the channel, or allocate when it is empty.  The
\* result is the buffer's identity; a fresh buffer gets the next identity.
get(q, heap) == IF q # <<>> THEN Head(q) ELSE Len(heap) + 1

\* What pool.get leaves in the channel.
getRest(q) == IF q # <<>> THEN Tail(q) ELSE q

\* The heap after pool.get: one more zeroed buffer when the channel was empty.
getHeap(q, heap) == IF q # <<>> THEN heap ELSE Append(heap, make(MAX_LINE_SIZE))

\* pool.put: send on the channel, or drop the buffer when it is full.
put(q, b) == IF Len(q) < PoolSize THEN Append(q, b) ELSE q

\* The session's record of a pool.put of b.
ObsPut(o, b) ==
    [o EXCEPT !.puts = @ + 1,
              !.strayPuts = IF b \in o.held THEN @ ELSE @ + 1,
              !.held = @ \ {b}]

\* ------------------------------------------------------------- tiered pool
\* bufferpool.go.  A buffer is stood for by its length, which is all the pool
\* looks at.

\* NewPool(n): 30 big and 500 small buffers, whatever n is.
NewPoolBig(n) == [j \in 1..BIG_COUNT |-> MAX_LINE_SIZE]

NewPoolSmall(n) == [j \in 1..SMALL_COUNT |-> SMALL_SIZE]

\* The capacities of the two channels.
bigCap == BIG_COUNT

smallCap == SMALL_COUNT

InitTieredPool ==
    /\ bigBuffers = NewPoolBig(TieredN)
    /\ smallBuffers = NewPoolSmall(TieredN)
    /\ out = [s \in Sessions |-> <<>>]
    /\ lastGet = [maxSize |-> 0, len |-> 0]

\* A get from the small class that waits on the channel (no default case).
GetSmall_blocking(s, maxSize) ==
    /\ UNCHANGED <<lvars, mvars>>
    /\ Len(out[s]) < MaxOut
    /\ maxSize <= SMALL_SIZE
    /\ smallBuffers # <<>>
    /\ smallBuffers' = Tail(smallBuffers)
    /\ out' = [out EXCEPT ![s] = Append(@, Head(smallBuffers))]
    /\ lastGet' = [maxSize |-> maxSize, len |-> Head(smallBuffers)]
    /\ UNCHANGED bigBuffers

\* pool.get(maxSize), case maxSize <= 50*1000
GetSmall(s, maxSize) ==
    /\ UNCHANGED <<lvars, mvars>>
    /\ Len(out[s]) < MaxOut
    /\ maxSize <= SMALL_SIZE
    /\ LET b == IF smallBuffers # <<>> THEN Head(smallBuffers) ELSE SMALL_SIZE
       IN  /\ smallBuffers' = IF smallBuffers # <<>> THEN Tail(smallBuffers) ELSE smallBuffers
           /\ out' = [out EXCEPT ![s] = Append(@, b)]
           /\ lastGet' = [maxSize |-> maxSize, len |-> b]
    /\ UNCHANGED bigBuffers

\* pool.get(maxSize), default case
GetBig(s, maxSize) ==
    /\ UNCHANGED <<lvars, mvars>>
    /\ Len(out[s]) < MaxOut
    /\ ~(maxSize <= SMALL_SIZE)
    /\ LET b == IF bigBuffers # <<>> THEN Head(bigBuffers) ELSE MAX_LINE_SIZE
       IN  /\ bigBuffers' = IF bigBuffers # <<>> THEN Tail(bigBuffers) ELSE bigBuffers
           /\ out' = [out EXCEPT ![s] = Append(@, b)]
           /\ lastGet' = [maxSize |-> maxSize, len |-> b]
    /\ UNCHANGED smallBuffers

RemoveAt(q, k) == SubSeq(q, 1, k - 1) \o SubSeq(q, k + 1, Len(q))

\* A put that files every buffer no longer than a big one under "small".
PutSmall_anylen(s, k) ==
    /\ UNCHANGED <<lvars, mvars>>
    /\ k \in 1..Len(out[s])
    /\ out[s][k] <= MAX_LINE_SIZE
    /\ smallBuffers' = IF Len(smallBuffers) < smallCap
                       THEN Append(smallBuffers, out[s][k]) ELSE smallBuffers
    /\ out' = [out EXCEPT ![s] = RemoveAt(@, k)]
    /\ UNCHANGED <<bigBuffers, lastGet>>

\* pool.put(b), case len(b) <= 50*1000
PutSmall(s, k) ==
    /\ UNCHANGED <<lvars, mvars>>
    /\ k \in 1..Len(out[s])
    /\ out[s][k] <= SMALL_SIZE
    /\ smallBuffers' = IF Len(smallBuffers) < smallCap
                       THEN Append(smallBuffers, out[s][k]) ELSE smallBuffers
    /\ out' = [out EXCEPT ![s] = RemoveAt(@, k)]
    /\ UNCHANGED <<bigBuffers, lastGet>>

\* pool.put(b), default case
PutBig(s, k) ==
    /\ UNCHANGED <<lvars, mvars>>
    /\ k \in 1..Len(out[s])
    /\ ~(out[s][k] <= SMALL_SIZE)
    /\ bigBuffers' = IF Len(bigBuffers) < bigCap
                     THEN Append(bigBuffers, out[s][k]) ELSE bigBuffers
    /\ out' = [out EXCEPT ![s] = RemoveAt(@, k)]
    /\ UNCHANGED <<smallBuffers, lastGet>>

\* Callers of the tiered pool: any session gets with any size hint and puts
\* any buffer it has got, in any order.
NextTiered ==
    \E s \in Sessions :
        \/ \E maxSize \in 1..(MAX_LINE_SIZE + 1) : GetSmall(s, maxSize)
        \/ \E maxSize \in 1..(MAX_LINE_SIZE + 1) : GetBig(s, maxSize)
        \/ \E k \in 1..MaxOut : PutSmall(s, k)
        \/ \E k \in 1..MaxOut : PutBig(s, k)

\* ------------------------------------------------------------- mesos collector
\* mesos.go.  Of the metrics groups and of the metrics of each group the first
\* few are kept; the code treats them all alike.
MASTER == "master"

SLAVE == "slave"

Roles == {MASTER, SLAVE}

\* allMetrics[role]
allMetrics(role) ==
    IF role = MASTER THEN <<"resources", "master", "system">>
    ELSE <<"resources", "agent", "system">>

\* The names in a []string, which is all that metricsDiff looks at.
Names(seq) == {seq[k] : k \in 1..Len(seq)}

\* getMetrics(role, group): the metrics of a group, none for an unknown one.
getMetrics(role, group) ==
    IF role = MASTER
    THEN CASE group = "resources" -> {"master/cpus_total"}
           [] group = "master"    -> {"master/elected", "master/uptime_secs"}
           [] group = "system"    -> {"system/load_1min"}
           [] OTHER               -> {}
    ELSE CASE group = "resources" -> {"slave/cpus_total"}
           [] group = "agent"     -> {"slave/uptime_secs"}
           [] group = "system"    -> {"system/load_1min"}
           [] OTHER               -> {}

\* A master_collections or slave_collections setting: any of the role's
\* groups and a name that is no group; none set is the empty list.
Collections(role) == SUBSET (Names(allMetrics(role)) \cup {"other"})

\* A value of the decoded JSON object: a number, or something that is none.
JSONValues ==
    {[kind |-> "number", num |-> n] : n \in 0..MaxMetric}
        \cup {[kind |-> "string", num |-> 0]}

\* The metric names a snapshot is made of.
SnapshotKeys(role) ==
    IF role = MASTER THEN {"master/cpus_total", "master/elected", "system/load_1min"}
    ELSE {"slave/cpus_total", "system/load_1min"}

\* What json.Unmarshal makes of a reply of /metrics/snapshot.
Snapshots(role) == UNION {[D -> JSONValues] : D \in SUBSET SnapshotKeys(role)}

\* SetDefaults, for one of the two lists.
defaultCols(cols, role) == IF cols = {} THEN Names(allMetrics(role)) ELSE cols

\* metricsDiff(role, w): the groups of the role that w does not name.
metricsDiff(role, w) ==
    IF w = {} THEN <<>>
    ELSE SelectSeq(allMetrics(role), LAMBDA d : d \notin w)

\* filterMetrics(role, &metrics): delete the metrics of the groups that
\* metricsDiff returns for the role's list.
filterMetrics(cfg, role, metrics) ==
    LET selectedMetrics == IF role = MASTER THEN cfg.MasterCols ELSE cfg.SlaveCols
        diff == metricsDiff(role, selectedMetrics)
        gone == UNION {getMetrics(role, diff[k]) : k \in 1..Len(diff)}
    IN  [v \in (DOMAIN metrics) \ gone |-> metrics[v]]

\* jf.FlattenJSON("", jsonOut) on an object without nesting: jf.Fields gets
\* the numbers under their names, other values are left out.
FlattenJSON(jsonOut) ==
    [k \in {v \in DOMAIN jsonOut : jsonOut[v].kind = "number"} |-> jsonOut[k].num]

\* jf.Fields["master/elected"] != 0.0: a missing key gives the nil interface,
\* which is not equal to the float64 0.
electedNonZero(Fields) ==
    "master/elected" \notin DOMAIN Fields \/ Fields["master/elected"] # 0

\* The tags of the point: server and role, and state for a master.
pointTags(role, Fields) ==
    IF role = MASTER
    THEN [server |-> "host", role |-> role,
          state |-> IF electedNonZero(Fields) THEN "leader" ELSE "standby"]
    ELSE [server |-> "host", role |-> role]

NoGather ==
    [pc |-> "idle", role |-> MASTER, snapshot |-> <<>>, jsonOut |-> <<>>,
     Fields |-> <<>>, err |-> "nil"]

\* No collector configured.
InitMesosIdle ==
    /\ mesos = [MasterCols |-> {}, SlaveCols |-> {}]
    /\ gather = NoGather
    /\ acc = <<>>

\* m.SetDefaults()
SetDefaults ==
    /\ UNCHANGED <<lvars, tvars>>
    /\ gather.pc = "start"
    /\ mesos' = [MasterCols |-> defaultCols(mesos.MasterCols, MASTER),
                 SlaveCols |-> defaultCols(mesos.SlaveCols, SLAVE)]
    /\ gather' = [gather EXCEPT !.pc = "request"]
    /\ UNCHANGED acc

\* client.Do, ioutil.ReadAll or json.Unmarshal fails: return the error.
RequestFails ==
    /\ UNCHANGED <<lvars, tvars>>
    /\ gather.pc = "request"
    /\ \E e \in {"client.Do", "ioutil.ReadAll", "Error decoding JSON response"} :
         gather' = [gather EXCEPT !.pc = "done", !.err = e]
    /\ UNCHANGED <<mesos, acc>>

\* The reply is read and decoded into jsonOut.
Decode ==
    /\ UNCHANGED <<lvars, tvars>>
    /\ gather.pc = "request"
    /\ \E r \in Snapshots(gather.role) :
         gather' = [gather EXCEPT !.pc = "filter", !.snapshot = r, !.jsonOut = r]
    /\ UNCHANGED <<mesos, acc>>

\* m.filterMetrics(role, &jsonOut)
FilterMetrics ==
    /\ UNCHANGED <<lvars, tvars>>
    /\ gather.pc = "filter"
    /\ gather' = [gather EXCEPT !.pc = "flatten",
                                !.jsonOut = filterMetrics(mesos, gather.role, @)]
    /\ UNCHANGED <<mesos, acc>>

\* err = jf.FlattenJSON("", jsonOut)
FlattenFields ==
    /\ UNCHANGED <<lvars, tvars>>
    /\ gather.pc = "flatten"
    /\ gather' = [gather EXCEPT !.pc = "tag", !.Fields = FlattenJSON(gather.jsonOut)]
    /\ UNCHANGED <<mesos, acc>>

\* The state tag of a master, then acc.AddFields("mesos", jf.Fields, tags).
AddFields ==
    /\ UNCHANGED <<lvars, tvars>>
    /\ gather.pc = "tag"
    /\ acc' = Append(acc, [role |-> gather.role, fields |-> gather.Fields,
                           tags |-> pointTags(gather.role, gather.Fields)])
    /\ gather' = [gather EXCEPT !.pc = "done"]
    /\ UNCHANGED mesos

NextMesos ==
    \/ SetDefaults
    \/ RequestFails
    \/ Decode
    \/ FilterMetrics
    \/ FlattenFields
    \/ AddFields

\* ------------------------------------------------------------- serveWrite
\* A check of the declared length that is off by one.
declaredTooLarge_offbyone(r) == r.ContentLength > MaxBodySize + 1

\* req.ContentLength > t.MaxBodySize
declaredTooLarge(r) == r.ContentLength > MaxBodySize

\* A flag assigned from the last verdict instead of accumulated.
parseFlag_assign(return400, ok) == ~ok

\* The flag after a call of t.parse: set on an error, otherwise left alone.
parseFlag(return400, ok) == return400 \/ ~ok

\* The response of the final-fragment branch.
finalStatus(return400) == IF return400 THEN StatusBadRequest ELSE StatusNoContent

\* toolarge(res); return
RejectTooLarge(s) ==
    /\ UNCHANGED <<tvars, mvars>>
    /\ ses[s].pc = "start"
    /\ declaredTooLarge(req[s])
    /\ ses' = [ses EXCEPT ![s].pc = "return", ![s].ret = "toolarge"]
    /\ obs' = [obs EXCEPT ![s].status = Append(@, StatusRequestEntityTooLarge)]
    /\ UNCHANGED <<buffers, mem, req>>

\* gzip.NewReader fails: r is nil, its Close is already deferred, badrequest.
GzipFail(s) ==
    /\ UNCHANGED <<tvars, mvars>>
    /\ ses[s].pc = "start"
    /\ ~declaredTooLarge(req[s])
    /\ req[s].enc = "badgzip"
    /\ ses' = [ses EXCEPT ![s].pc = "return", ![s].ret = "gzip", ![s].gz = "nil"]
    /\ obs' = [obs EXCEPT ![s].status = Append(@, StatusBadRequest)]
    /\ UNCHANGED <<buffers, mem, req>>

\* body = http.MaxBytesReader(...), over the gzip reader when one is declared.
OpenBody(s) ==
    /\ UNCHANGED <<tvars, mvars>>
    /\ ses[s].pc = "start"
    /\ ~declaredTooLarge(req[s])
    /\ req[s].enc # "badgzip"
    /\ ses' = [ses EXCEPT ![s].pc = "loop",
                          ![s].gz = IF req[s].enc = "gzip" THEN "open" ELSE "none"]
    /\ UNCHANGED <<buffers, mem, req, obs>>

\* A loop head that asks the pool only while buf is nil.
Acquire_ifnil(s) ==
    /\ UNCHANGED <<tvars, mvars>>
    /\ ses[s].pc = "loop"
    /\ IF ses[s].buf = 0
       THEN LET b == get(buffers, mem)
            IN  /\ ses' = [ses EXCEPT ![s].pc = "read", ![s].buf = b]
                /\ buffers' = getRest(buffers)
                /\ mem' = getHeap(buffers, mem)
                /\ obs' = [obs EXCEPT ![s].gets = @ + 1, ![s].held = @ \cup {b}]
       ELSE /\ ses' = [ses EXCEPT ![s].pc = "read"]
            /\ UNCHANGED <<buffers, mem, obs>>
    /\ UNCHANGED req

\* if bufstart == 0 { buf = t.pool.get() }
Acquire(s) ==
    /\ UNCHANGED <<tvars, mvars>>
    /\ ses[s].pc = "loop"
    /\ IF ses[s].bufstart = 0
       THEN LET b == get(buffers, mem)
            IN  /\ ses' = [ses EXCEPT ![s].pc = "read", ![s].buf = b]
                /\ buffers' = getRest(buffers)
                /\ mem' = getHeap(buffers, mem)
                /\ obs' = [obs EXCEPT ![s].gets = @ + 1, ![s].held = @ \cup {b}]
       ELSE /\ ses' = [ses EXCEPT ![s].pc = "read"]
            /\ UNCHANGED <<buffers, mem, obs>>
    /\ UNCHANGED req

\* n, err := io.ReadFull(body, buf[bufstart:])
ReadFull(s) ==
    /\ UNCHANGED <<tvars, mvars>>
    /\ ses[s].pc = "read"
    /\ LET data  == LimitedData(req[s])
           b     == ses[s].buf
           off   == ses[s].bufstart
           want  == Len(mem[b]) - off
           avail == Len(data) - ses[s].pos
           k     == Min(want, avail)
           e     == IF avail >= want THEN "nil"
                    ELSE IF LimitedEnd(req[s]) = "EOF"
                         THEN (IF k = 0 THEN "EOF" ELSE "ErrUnexpectedEOF")
                         ELSE LimitedEnd(req[s])
       IN  /\ mem' = [mem EXCEPT ![b] =
                        [j \in 1..Len(@) |->
                            IF off < j /\ j <= off + k
                            THEN data[ses[s].pos + j - off] ELSE @[j]]]
           /\ ses' = [ses EXCEPT ![s].pc = "check", ![s].n = k, ![s].err = e,
                                 ![s].pos = @ + k]
    /\ UNCHANGED <<buffers, req, obs>>

\* The number of body bytes read before the read that filled buf[0]: all that
\* were read so far, less the bufstart bytes kept from the last fill and the
\* n bytes of this one.
bufOffset(l) == l.pos - l.bufstart - l.n

isReadError(e) == e \notin {"nil", "ErrUnexpectedEOF", "EOF"}

isFinished(e, n) == e \in {"ErrUnexpectedEOF", "EOF"} \/ n = 0

\* A read-error branch that returns without giving the buffer back.
ReadError_leak(s) ==
    /\ UNCHANGED <<tvars, mvars>>
    /\ ses[s].pc = "check"
    /\ isReadError(ses[s].err)
    /\ obs' = [obs EXCEPT ![s].status = Append(@, StatusBadRequest)]
    /\ ses' = [ses EXCEPT ![s].pc = "return", ![s].ret = "readerr"]
    /\ UNCHANGED <<buffers, mem, req>>

\* A read-error branch that answers like the final-fragment branch, by the flag.
ReadError_flag(s) ==
    /\ UNCHANGED <<tvars, mvars>>
    /\ ses[s].pc = "check"
    /\ isReadError(ses[s].err)
    /\ obs' = [obs EXCEPT ![s] =
                 ObsPut([@ EXCEPT !.status = Append(@, finalStatus(ses[s].return400))],
                        ses[s].buf)]
    /\ buffers' = put(buffers, ses[s].buf)
    /\ ses' = [ses EXCEPT ![s].pc = "return", ![s].ret = "readerr"]
    /\ UNCHANGED <<mem, req>>

\* err is neither nil nor an end of stream: badrequest, put, return.
ReadError(s) ==
    /\ UNCHANGED <<tvars, mvars>>
    /\ ses[s].pc = "check"
    /\ isReadError(ses[s].err)
    /\ obs' = [obs EXCEPT ![s] =
                 ObsPut([@ EXCEPT !.status = Append(@, StatusBadRequest)], ses[s].buf)]
    /\ buffers' = put(buffers, ses[s].buf)
    /\ ses' = [ses EXCEPT ![s].pc = "return", ![s].ret = "readerr"]
    /\ UNCHANGED <<mem, req>>

\* A final-fragment branch that parses the whole buffer, not buf[:n+bufstart].
Finish_wholebuf(s) ==
    /\ UNCHANGED <<tvars, mvars>>
    /\ ses[s].pc = "check"
    /\ ~isReadError(ses[s].err)
    /\ isFinished(ses[s].err, ses[s].n)
    /\ \E ok \in BOOLEAN :
         LET r400 == parseFlag(ses[s].return400, ok)
             region == mem[ses[s].buf]
         IN  /\ obs' = [obs EXCEPT ![s] =
                          ObsPut([@ EXCEPT !.dispatched = Append(@, region),
                                           !.offsets = Append(@, bufOffset(ses[s])),
                                           !.rejected = @ \/ ~ok,
                                           !.status = Append(@, finalStatus(r400))],
                                 ses[s].buf)]
             /\ ses' = [ses EXCEPT ![s].pc = "return", ![s].ret = "finished",
                                   ![s].return400 = r400]
    /\ buffers' = put(buffers, ses[s].buf)
    /\ UNCHANGED <<mem, req>>

\* "finished reading the request body": parse buf[:n+bufstart], put, respond.
Finish(s) ==
    /\ UNCHANGED <<tvars, mvars>>
    /\ ses[s].pc = "check"
    /\ ~isReadError(ses[s].err)
    /\ isFinished(ses[s].err, ses[s].n)
    /\ \E ok \in BOOLEAN :
         LET r400 == parseFlag(ses[s].return400, ok)
             region == SubSeq(mem[ses[s].buf], 1, ses[s].n + ses[s].bufstart)
         IN  /\ obs' = [obs EXCEPT ![s] =
                          ObsPut([@ EXCEPT !.dispatched = Append(@, region),
                                           !.offsets = Append(@, bufOffset(ses[s])),
                                           !.rejected = @ \/ ~ok,
                                           !.status = Append(@, finalStatus(r400))],
                                 ses[s].buf)]
             /\ ses' = [ses EXCEPT ![s].pc = "return", ![s].ret = "finished",
                                   ![s].return400 = r400]
    /\ buffers' = put(buffers, ses[s].buf)
    /\ UNCHANGED <<mem, req>>

\* The buffer is full and holds no newline: t.pool.put(buf).
DropLine(s) ==
    /\ UNCHANGED <<tvars, mvars>>
    /\ ses[s].pc = "check"
    /\ ~isReadError(ses[s].err)
    /\ ~isFinished(ses[s].err, ses[s].n)
    /\ LastIndexByte(mem[ses[s].buf], NL) = -1
    /\ buffers' = put(buffers, ses[s].buf)
    /\ obs' = [obs EXCEPT ![s] = ObsPut(@, ses[s].buf)]
    /\ ses' = [ses EXCEPT ![s].pc = "findnewline"]
    /\ UNCHANGED <<mem, req>>

\* findnewline(r): the number of bytes read up to and including the next
\* newline, or up to the first failing Read.
findnewline(data, pos) ==
    LET S == {j \in 1..(Len(data) - pos) : data[pos + j] = NL}
    IN  IF S = {} THEN Len(data) - pos ELSE SetMin(S)

\* newlinei := findnewline(body); log the line's length; return400 = true.
FindNewline(s) ==
    /\ UNCHANGED <<tvars, mvars>>
    /\ ses[s].pc = "findnewline"
    /\ LET newlinei == findnewline(LimitedData(req[s]), ses[s].pos)
       IN  /\ ses' = [ses EXCEPT ![s].pc = "loop", ![s].pos = @ + newlinei,
                                 ![s].return400 = TRUE]
           /\ obs' = [obs EXCEPT ![s].events = Append(@, MAX_LINE_SIZE + newlinei)]
    /\ UNCHANGED <<buffers, mem, req>>

\* A rotate that sets bufstart and leaves the bytes where they are.
Rotate_nocopy(s) ==
    /\ UNCHANGED <<tvars, mvars>>
    /\ ses[s].pc = "check"
    /\ ~isReadError(ses[s].err)
    /\ ~isFinished(ses[s].err, ses[s].n)
    /\ LET b == ses[s].buf
           i == LastIndexByte(mem[b], NL)
           start == Len(mem[b]) - i
       IN  /\ i # -1
           /\ \E ok \in BOOLEAN :
                /\ obs' = [obs EXCEPT ![s].dispatched = Append(@, SubSeq(mem[b], 1, i)),
                                      ![s].offsets = Append(@, bufOffset(ses[s])),
                                      ![s].rejected = @ \/ ~ok]
                /\ ses' = [ses EXCEPT ![s].pc = "loop", ![s].bufstart = start,
                                      ![s].return400 = parseFlag(@, ok)]
    /\ UNCHANGED <<buffers, mem, req>>

\* parse buf[:i], then rotate the bytes from the last newline on to the front.
Rotate(s) ==
    /\ UNCHANGED <<tvars, mvars>>
    /\ ses[s].pc = "check"
    /\ ~isReadError(ses[s].err)
    /\ ~isFinished(ses[s].err, ses[s].n)
    /\ LET b == ses[s].buf
           i == LastIndexByte(mem[b], NL)
           start == Len(mem[b]) - i
       IN  /\ i # -1
           /\ \E ok \in BOOLEAN :
                /\ obs' = [obs EXCEPT ![s].dispatched = Append(@, SubSeq(mem[b], 1, i)),
                                      ![s].offsets = Append(@, bufOffset(ses[s])),
                                      ![s].rejected = @ \/ ~ok]
                /\ ses' = [ses EXCEPT ![s].pc = "loop", ![s].bufstart = start,
                                      ![s].return400 = parseFlag(@, ok)]
           /\ mem' = [mem EXCEPT ![b] =
                        [j \in 1..Len(@) |-> IF j <= start THEN @[i + j] ELSE @[j]]]
    /\ UNCHANGED <<buffers, req>>

\* The return: the deferred r.Close() runs when one was registered; on the nil
\* reader that gzip.NewReader returns with an error it dereferences nil.
Return(s) ==
    /\ UNCHANGED <<tvars, mvars>>
    /\ ses[s].pc = "return"
    /\ ses' = [ses EXCEPT ![s].pc = IF ses[s].gz = "nil" THEN "panic" ELSE "done"]
    /\ obs' = [obs EXCEPT ![s].closes = IF ses[s].gz = "open" THEN @ + 1 ELSE @]
    /\ UNCHANGED <<buffers, mem, req>>

Step(s) ==
    \/ RejectTooLarge(s)
    \/ GzipFail(s)
    \/ OpenBody(s)
    \/ Acquire(s)
    \/ ReadFull(s)
    \/ ReadError(s)
    \/ Finish(s)
    \/ DropLine(s)
    \/ FindNewline(s)
    \/ Rotate(s)
    \/ Return(s)

Next == \E s \in Sessions : Step(s)

NoRequest == [data |-> <<>>, end |-> "EOF", enc |-> "identity", ContentLength |-> 0]

\* One request being served; the other session has not been given one (its
\* handler never runs).
Init ==
    /\ buffers = NewPool(PoolSize)
    /\ mem = NewPoolMem(PoolSize)
    /\ \E r1 \in Requests(1, MaxBodyLen) : req = (1 :> r1 @@ 2 :> NoRequest)
    /\ ses = [s \in Sessions |-> IF s = 1 THEN InitSes ELSE [InitSes EXCEPT !.pc = "idle"]]
    /\ obs = [s \in Sessions |-> InitObs]
    /\ InitTieredPool
    /\ InitMesosIdle

Spec == Init /\ [][Next]_vars

\* Two requests served concurrently over the one pool.  Their bodies are one
\* byte long or one byte longer than a buffer, with newlines among the first
\* two bytes only; one request declares too large a length and one declares
\* gzip over a body that is not gzip.
ConcBodies(s) ==
    {d \in Bodies(s, MAX_LINE_SIZE + 1) :
        /\ Len(d) \in {1, MAX_LINE_SIZE + 1}
        /\ \A j \in 3..Len(d) : d[j] # NL}

ConcRequests(s) ==
    {r \in Requests(s, MAX_LINE_SIZE + 1) :
        /\ r.data \in ConcBodies(s)
        /\ r.enc = "identity"
        /\ r.ContentLength = -1}
    \cup {[data |-> <<100 * s + 1>>, end |-> "broken", enc |-> "identity",
           ContentLength |-> MaxBodySize + 1],
          [data |-> <<100 * s + 1>>, end |-> "EOF", enc |-> "badgzip",
           ContentLength |-> -1],
          [data |-> <<100 * s + 1>>, end |-> "broken", enc |-> "gzip",
           ContentLength |-> -1]}

InitConc ==
    /\ buffers = NewPool(PoolSize)
    /\ mem = NewPoolMem(PoolSize)
    /\ \E r1 \in ConcRequests(1), r2 \in ConcRequests(2) : req = (1 :> r1 @@ 2 :> r2)
    /\ ses = [s \in Sessions |-> InitSes]
    /\ obs = [s \in Sessions |-> InitObs]
    /\ InitTieredPool
    /\ InitMesosIdle

SpecConc == InitConc /\ [][Next]_vars

\* The tiered pool alone, no request being served.
InitTiered ==
    /\ buffers = NewPool(PoolSize)
    /\ mem = NewPoolMem(PoolSize)
    /\ req = [s \in Sessions |-> NoRequest]
    /\ ses = [s \in Sessions |-> [InitSes EXCEPT !.pc = "idle"]]
    /\ obs = [s \in Sessions |-> InitObs]
    /\ InitTieredPool
    /\ InitMesosIdle

SpecTiered == InitTiered /\ [][NextTiered]_vars

\* ------------------------------------------------------------- reads, call by call
\* The body's Read may return any part of what is asked of it.  Its error
\* comes with the last bytes or on the call after them, and stays.

\* body.Read in the place of io.ReadFull: back to the handler after one call.
ReadChunk_short(s) ==
    /\ UNCHANGED <<tvars, mvars>>
    /\ ses[s].pc \in {"read", "reading"}
    /\ LET data  == LimitedData(req[s])
           b     == ses[s].buf
           off   == ses[s].bufstart
           want  == Len(mem[b]) - off
           avail == Len(data) - ses[s].pos
       IN  IF want = 0 \/ avail = 0
           THEN /\ ses' = [ses EXCEPT ![s].pc = "check", ![s].n = 0,
                                      ![s].err = IF want = 0 THEN "nil" ELSE LimitedEnd(req[s])]
                /\ obs' = [obs EXCEPT ![s].reads = @ + 1]
                /\ UNCHANGED mem
           ELSE \E k \in 1..Min(want, avail) :
                  /\ mem' = [mem EXCEPT ![b] =
                               [j \in 1..Len(@) |->
                                   IF off < j /\ j <= off + k
                                   THEN data[ses[s].pos + j - off] ELSE @[j]]]
                  /\ ses' = [ses EXCEPT ![s].pc = "check", ![s].n = k, ![s].err = "nil",
                                        ![s].pos = @ + k]
                  /\ obs' = [obs EXCEPT ![s].reads = @ + 1]
    /\ UNCHANGED <<buffers, req>>

\* io.ReadFull(body, buf[bufstart:]), one body.Read per step: io.ReadAtLeast
\* calls Read on what is left of the slice while it is not full and no error
\* came; a full slice gives err = nil, io.EOF after some bytes becomes
\* io.ErrUnexpectedEOF.  An empty slice gives (0, nil) without a Read.
ReadChunk(s) ==
    /\ UNCHANGED <<tvars, mvars>>
    /\ ses[s].pc \in {"read", "reading"}
    /\ LET data  == LimitedData(req[s])
           end   == LimitedEnd(req[s])
           b     == ses[s].buf
           off   == ses[s].bufstart
           n0    == IF ses[s].pc = "read" THEN 0 ELSE ses[s].n
           want  == Len(mem[b]) - off
           avail == Len(data) - ses[s].pos
           eof(n) == IF end = "EOF" THEN (IF n = 0 THEN "EOF" ELSE "ErrUnexpectedEOF")
                     ELSE end
       IN  IF want = 0
           THEN /\ ses' = [ses EXCEPT ![s].pc = "check", ![s].n = 0, ![s].err = "nil"]
                /\ UNCHANGED <<mem, obs>>
           ELSE IF avail = 0
           THEN /\ ses' = [ses EXCEPT ![s].pc = "check", ![s].n = n0, ![s].err = eof(n0)]
                /\ obs' = [obs EXCEPT ![s].reads = @ + 1]
                /\ UNCHANGED mem
           ELSE \E k \in 1..Min(want - n0, avail), witherr \in BOOLEAN :
                  /\ witherr => k = avail
                  /\ mem' = [mem EXCEPT ![b] =
                               [j \in 1..Len(@) |->
                                   IF off + n0 < j /\ j <= off + n0 + k
                                   THEN data[ses[s].pos + j - off - n0] ELSE @[j]]]
                  /\ ses' = [ses EXCEPT
                               ![s].pc = IF n0 + k >= want \/ witherr THEN "check" ELSE "reading",
                               ![s].n = n0 + k,
                               ![s].err = IF n0 + k >= want \/ ~witherr THEN "nil"
                                          ELSE eof(n0 + k),
                               ![s].pos = @ + k]
                  /\ obs' = [obs EXCEPT ![s].reads = @ + 1]
    /\ UNCHANGED <<buffers, req>>

\* findnewline(body), whose Reads are of one byte: a byte that comes together
\* with the stream's error is consumed and not counted.
FindNewlineChunk(s) ==
    /\ UNCHANGED <<tvars, mvars>>
    /\ ses[s].pc = "findnewline"
    /\ LET data == LimitedData(req[s])
           consumed == findnewline(data, ses[s].pos)
       IN  \E witherr \in BOOLEAN :
             /\ witherr => (consumed > 0 /\ ses[s].pos + consumed = Len(data))
             /\ ses' = [ses EXCEPT ![s].pc = "loop", ![s].pos = @ + consumed,
                                   ![s].return400 = TRUE]
             /\ obs' = [obs EXCEPT ![s].events =
                          Append(@, MAX_LINE_SIZE + consumed - (IF witherr THEN 1 ELSE 0))]
    /\ UNCHANGED <<buffers, mem, req>>

StepChunk(s) ==
    \/ OpenBody(s)
    \/ Acquire(s)
    \/ ReadChunk(s)
    \/ ReadError(s)
    \/ Finish(s)
    \/ DropLine(s)
    \/ FindNewlineChunk(s)
    \/ Rotate(s)
    \/ Return(s)

NextChunk == \E s \in Sessions : StepChunk(s)

\* The same request served by both sessions, over the same pool.
ChunkRequests ==
    {[data |-> d, end |-> e, enc |-> "identity", ContentLength |-> -1] :
        d \in Bodies(1, ChunkLen), e \in {"EOF", "broken"}}

InitChunk ==
    /\ buffers = NewPool(PoolSize)
    /\ mem = NewPoolMem(PoolSize)
    /\ \E r \in ChunkRequests : req = [s \in Sessions |-> r]
    /\ ses = [s \in Sessions |-> InitSes]
    /\ obs = [s \in Sessions |-> InitObs]
    /\ InitTieredPool
    /\ InitMesosIdle

SpecChunk == InitChunk /\ [][NextChunk]_vars

\* One call of gatherMainMetrics, for a master or for a slave, under any
\* setting of the two lists; no request is served by the listener.
InitMesos ==
    /\ buffers = NewPool(PoolSize)
    /\ mem = NewPoolMem(PoolSize)
    /\ req = [s \in Sessions |-> NoRequest]
    /\ ses = [s \in Sessions |-> [InitSes EXCEPT !.pc = "idle"]]
    /\ obs = [s \in Sessions |-> InitObs]
    /\ InitTieredPool
    /\ \E mc \in Collections(MASTER), sc \in Collections(SLAVE) :
         mesos = [MasterCols |-> mc, SlaveCols |-> sc]
    /\ \E role \in Roles : gather = [NoGather EXCEPT !.pc = "start", !.role = role]
    /\ acc = <<>>

SpecMesos == InitMesos /\ [][NextMesos]_vars

\* ------------------------------------------------------------- properties
Finished(s) == ses[s].ret = "finished"

Terminated(s) == ses[s].pc \in {"done", "panic"}

\* The body reaches the handler whole and ends with end-of-stream.
CleanStream(r) ==
    /\ r.enc # "badgzip"
    /\ r.end = "EOF"
    /\ Len(r.data) <= MaxBodySize
    /\ ~declaredTooLarge(r)

RECURSIVE Flatten(_)
Flatten(ss) == IF ss = <<>> THEN <<>> ELSE Head(ss) \o Flatten(Tail(ss))

\* The newline-delimited records of a body, as <<first, last>> offsets (an
\* empty record has last = first - 1).
RecordSpans(d) ==
    {sp \in (1..Len(d) + 1) \X (0..Len(d)) :
        /\ sp[2] >= sp[1] - 1
        /\ sp[1] = 1 \/ d[sp[1] - 1] = NL
        /\ sp[2] = Len(d) \/ d[sp[2] + 1] = NL
        /\ \A j \in sp[1]..sp[2] : d[j] # NL}

SpanLen(sp) == sp[2] - sp[1] + 1

Oversized(d) == {sp \in RecordSpans(d) : SpanLen(sp) > MAX_LINE_SIZE}

DispatchedBytes(s) == {x \in 0..(100 * s + MaxBodyLen + 1) :
                         \E k \in 1..Len(Flatten(obs[s].dispatched)) :
                            Flatten(obs[s].dispatched)[k] = x}

\* C1: when the body is read without a stream error and every record is
\* shorter than the buffer, the regions handed to parse, concatenated in
\* dispatch order, are the body byte for byte.
C1_Claim ==
    \A s \in Sessions :
        ( /\ Finished(s)
          /\ CleanStream(req[s])
          /\ \A sp \in RecordSpans(req[s].data) : SpanLen(sp) < MAX_LINE_SIZE )
        => Flatten(obs[s].dispatched) = req[s].data

\* C2: a record longer than the buffer, wherever it is in the body, causes
\* exactly one record-too-large event, marks the request failed, has none of
\* its bytes dispatched, and every complete record after it is dispatched.
C2_Claim ==
    \A s \in Sessions :
        ( /\ Finished(s)
          /\ CleanStream(req[s])
          /\ Cardinality(Oversized(req[s].data)) = 1 )
        => LET d == req[s].data
               big == CHOOSE sp \in Oversized(d) : TRUE
           IN  /\ Len(obs[s].events) = 1
               /\ ses[s].return400
               /\ \A j \in big[1]..big[2] : d[j] \notin DispatchedBytes(s)
               /\ \A sp \in RecordSpans(d) :
                    (sp[1] > big[2] /\ sp[2] < Len(d))
                    => \A j \in sp[1]..sp[2] : d[j] \in DispatchedBytes(s)

\* C3: the final-fragment response is produced only once the body stream has
\* been read to its end.
C3_Claim ==
    \A s \in Sessions :
        Finished(s) => ses[s].pos = Len(LimitedData(req[s]))

\* C4: the failure flag is set exactly when a dispatched region was rejected
\* or a record-too-large event occurred (so it is never cleared), and a
\* session that takes the final-fragment branch writes exactly one response:
\* 204 when the flag is clear, 400 otherwise.
C4_Response ==
    \A s \in Sessions :
        /\ ses[s].return400 = (obs[s].rejected \/ obs[s].events # <<>>)
        /\ Finished(s) =>
             obs[s].status =
               << IF obs[s].rejected \/ obs[s].events # <<>>
                  THEN StatusBadRequest ELSE StatusNoContent >>

\* A finished session answered 400 although the parser accepted every region:
\* only a record-too-large event failed it.
C4_Witness ==
    \E s \in Sessions :
        /\ Finished(s)
        /\ obs[s].status = <<StatusBadRequest>>
        /\ ~obs[s].rejected
        /\ Len(obs[s].dispatched) >= 1

\* C5: a declared length over MaxBodySize is answered 413 and nothing else
\* happens: no body byte read, no buffer taken, nothing dispatched.
C5_TooLarge ==
    \A s \in Sessions :
        (req[s].ContentLength > MaxBodySize /\ ses[s].pc \notin {"start", "idle"})
        => /\ ses[s].ret = "toolarge"
           /\ obs[s].status = <<StatusRequestEntityTooLarge>>
           /\ ses[s].pos = 0
           /\ obs[s].gets = 0
           /\ ses[s].buf = 0
           /\ obs[s].dispatched = <<>>

C5_Witness ==
    \E s \in Sessions :
        /\ req[s].ContentLength > MaxBodySize
        /\ ses[s].pc = "done"
        /\ obs[s].status = <<StatusRequestEntityTooLarge>>

\* C6: a body longer than MaxBodySize whose declared length is not over it is
\* answered 413, like a declared length over the maximum.
C6_Claim ==
    \A s \in Sessions :
        ( /\ Terminated(s)
          /\ req[s].enc = "identity"
          /\ Len(req[s].data) > MaxBodySize
          /\ ~declaredTooLarge(req[s]) )
        => obs[s].status = <<StatusRequestEntityTooLarge>>

\* C7: a request that declares gzip and does not decompress gets exactly one
\* 400 and has nothing dispatched, whether the failure shows when the reader
\* is made or at a later read.
C7_Claim ==
    \A s \in Sessions :
        ( /\ Terminated(s)
          /\ ~declaredTooLarge(req[s])
          /\ Len(req[s].data) <= MaxBodySize
          /\ \/ req[s].enc = "badgzip"
             \/ req[s].enc = "gzip" /\ req[s].end = "broken" )
        => /\ obs[s].status = <<StatusBadRequest>>
           /\ obs[s].dispatched = <<>>

\* The buffer a session reads, scans or rotates next without asking the pool.
InUse(s) ==
    IF ses[s].pc \in {"read", "check"} \/ (ses[s].pc = "loop" /\ ses[s].bufstart # 0)
    THEN {ses[s].buf} ELSE {}

Idle(b) == {k \in 1..Len(buffers) : buffers[k] = b}

\* C8: no buffer is at once idle and in use, in use by two sessions, or twice
\* in the idle queue; the buffer a session uses is the one it got and has not
\* put.
C8_Exclusive ==
    /\ \A b \in 1..Len(mem) :
         Cardinality(Idle(b)) + Cardinality({s \in Sessions : b \in InUse(s)}) <= 1
    /\ \A s \in Sessions : InUse(s) = obs[s].held

\* One session still refers to the buffer it put back on the record-too-large
\* path while the other session has taken that buffer and filled it.
C8_Witness ==
    \E s, t \in Sessions :
        /\ s # t
        /\ ses[s].pc = "findnewline"
        /\ ses[t].pc = "check"
        /\ ses[t].buf = ses[s].buf

\* C9: a session owns at most one buffer, puts only a buffer it owns, and has
\* put every buffer it got once it returns.
C9_Released ==
    \A s \in Sessions :
        /\ Cardinality(obs[s].held) <= 1
        /\ obs[s].strayPuts = 0
        /\ ses[s].pc \in {"return", "done", "panic"} =>
             (obs[s].held = {} /\ obs[s].gets = obs[s].puts)

\* A session that went through a record-too-large event and then ended on a
\* read error: two buffers got, two put.
C9_Witness ==
    \E s \in Sessions :
        /\ ses[s].pc = "done"
        /\ ses[s].ret = "readerr"
        /\ obs[s].events # <<>>
        /\ obs[s].gets = 2
        /\ obs[s].puts = 2

\* C10: after NewPool(n) and any gets and puts, no size class holds more than
\* n idle buffers.
C10_Claim ==
    /\ Len(bigBuffers) <= TieredN
    /\ Len(smallBuffers) <= TieredN

\* The single-class pool of the listener keeps within the n it was made with.
SingleClassBound == Len(buffers) <= PoolSize

\* ------------------------------------------------------------- tiered pool claims
SizeHints == 1..(MAX_LINE_SIZE + 1)

\* A get by s with hint m, whichever class it falls in.
TieredGet(s, m) == GetSmall(s, m) \/ GetBig(s, m)

\* A put by s of the k-th buffer it holds, whichever class it falls in.
TieredPut(s, k) == PutSmall(s, k) \/ PutBig(s, k)

\* Every call a caller can make is enabled: the pool never makes it wait.
PoolCallsEnabled ==
    \A s \in Sessions :
        /\ Len(out[s]) < MaxOut => \A m \in SizeHints : ENABLED TieredGet(s, m)
        /\ \A k \in 1..Len(out[s]) : ENABLED TieredPut(s, k)

\* A get on an empty class hands out a fresh buffer of that class and a put on
\* a full class drops the buffer; either way both channels stay as they were.
PoolCallsAtTheEdge ==
    \A s \in Sessions :
        /\ Len(out'[s]) = Len(out[s]) + 1 =>
             LET b == out'[s][Len(out'[s])]
                 m == lastGet'.maxSize
             IN  /\ (m <= SMALL_SIZE /\ smallBuffers = <<>>) =>
                        (b = SMALL_SIZE /\ UNCHANGED <<smallBuffers, bigBuffers>>)
                 /\ (m > SMALL_SIZE /\ bigBuffers = <<>>) =>
                        (b = MAX_LINE_SIZE /\ UNCHANGED <<smallBuffers, bigBuffers>>)
        /\ \A k \in 1..Len(out[s]) :
             out'[s] = RemoveAt(out[s], k) =>
                /\ (out[s][k] <= SMALL_SIZE /\ Len(smallBuffers) = smallCap) =>
                        UNCHANGED <<smallBuffers, bigBuffers>>
                /\ (out[s][k] > SMALL_SIZE /\ Len(bigBuffers) = bigCap) =>
                        UNCHANGED <<smallBuffers, bigBuffers>>

\* C11: get and put never block and never fail: in every reachable state of
\* the pool every get and every put a session may call can be taken at once,
\* a get on an empty class returns a fresh buffer and a put on a full class
\* drops the buffer, both leaving the pool unchanged.
C11_NeverBlocks == [] PoolCallsEnabled /\ [][PoolCallsAtTheEdge]_vars

\* The small class has run empty and the callers hold more small buffers than
\* NewPool made: at least one get was served by a fresh allocation.
C11_Witness ==
    /\ smallBuffers = <<>>
    /\ \A s \in Sessions : Len(out[s]) = MaxOut /\ \A k \in 1..MaxOut : out[s][k] = SMALL_SIZE
    /\ MaxOut * Cardinality(Sessions) > SMALL_COUNT

\* The length get(maxSize) must return: the smallest class that covers maxSize,
\* the big class when none does.
ClassFor(maxSize) == IF maxSize <= SMALL_SIZE THEN SMALL_SIZE ELSE MAX_LINE_SIZE

\* C12: get(maxSize) returns a small buffer when maxSize <= 50,000 and a big
\* one otherwise (also when maxSize is over the big size), and each channel
\* holds only buffers of its own class.
C12_SizeClass ==
    /\ lastGet.maxSize # 0 => lastGet.len = ClassFor(lastGet.maxSize)
    /\ \A k \in 1..Len(smallBuffers) : smallBuffers[k] = SMALL_SIZE
    /\ \A k \in 1..Len(bigBuffers) : bigBuffers[k] = MAX_LINE_SIZE

\* A get with a hint over the big size was served from a channel that had
\* been emptied and refilled by puts.
C12_Witness ==
    /\ lastGet = [maxSize |-> MAX_LINE_SIZE + 1, len |-> MAX_LINE_SIZE]
    /\ \E s \in Sessions : \E k \in 1..Len(out[s]) : out[s][k] = SMALL_SIZE
    /\ Len(smallBuffers) = smallCap

\* The listener's single-class pool: the loop head's get and every branch
\* that puts can be taken as soon as the session reaches it.
SingleClassNeverBlocks ==
    \A s \in Sessions :
        /\ ses[s].pc = "loop" => ENABLED Acquire(s)
        /\ ses[s].pc = "check" =>
             ENABLED (ReadError(s) \/ Finish(s) \/ DropLine(s) \/ Rotate(s))

\* ------------------------------------------------------------- reassembly claims
\* The k-th region a session dispatched is the piece of the body that starts
\* after offsets[k] bytes.
IsBodyPiece(s, k) ==
    LET r == obs[s].dispatched[k]
        o == obs[s].offsets[k]
    IN  /\ 0 <= o
        /\ o + Len(r) <= Len(LimitedData(req[s]))
        /\ r = SubSeq(LimitedData(req[s]), o + 1, o + Len(r))

\* C13: the regions a session dispatches are contiguous pieces of its body,
\* each starting at or after the end of the one before: no byte is dispatched
\* twice and none out of stream order.
C13_InOrder ==
    \A s \in Sessions :
        /\ Len(obs[s].offsets) = Len(obs[s].dispatched)
        /\ \A k \in 1..Len(obs[s].dispatched) : IsBodyPiece(s, k)
        /\ \A k \in 1..(Len(obs[s].dispatched) - 1) :
             obs[s].offsets[k] + Len(obs[s].dispatched[k]) <= obs[s].offsets[k + 1]

\* Three regions went out, the last two of them after a carry-over, and all
\* three hold bytes.
C13_Witness ==
    \E s \in Sessions :
        /\ Len(obs[s].dispatched) = 3
        /\ \A k \in 1..3 : Len(obs[s].dispatched[k]) > 0
        /\ obs[s].offsets[3] > obs[s].offsets[2]

\* The record sp of session s's body lies inside one dispatched region.
InOneRegion(s, sp) ==
    \E k \in 1..Len(obs[s].dispatched) :
        /\ obs[s].offsets[k] + 1 <= sp[1]
        /\ sp[2] <= obs[s].offsets[k] + Len(obs[s].dispatched[k])

\* C14: a record of exactly capacity - 1 bytes, wherever it is in the body and
\* whether a delimiter or the end of the stream ends it, is dispatched whole
\* inside one region, and a body with no longer record causes no
\* record-too-large event.
C14_Claim ==
    \A s \in Sessions :
        ( /\ Finished(s)
          /\ CleanStream(req[s])
          /\ \A sp \in RecordSpans(req[s].data) : SpanLen(sp) <= MAX_LINE_SIZE - 1 )
        => /\ \A sp \in RecordSpans(req[s].data) :
                SpanLen(sp) = MAX_LINE_SIZE - 1 => InOneRegion(s, sp)
           /\ obs[s].events = <<>>

\* C15: when a full buffer holds a delimiter, the region dispatched is the
\* bytes before the last delimiter, the bytes moved to the front are exactly
\* those after it (the delimiter is not carried), and bufstart becomes the
\* length of that tail.
C15_Claim ==
    [][ \A s \in Sessions :
          (ses[s].pc = "check" /\ ses'[s].pc = "loop") =>
             LET b == ses[s].buf
                 i == LastIndexByte(mem[b], NL)
                 tail == SubSeq(mem[b], i + 2, Len(mem[b]))
             IN  /\ obs'[s].dispatched = Append(obs[s].dispatched, SubSeq(mem[b], 1, i))
                 /\ ses'[s].bufstart = Len(tail)
                 /\ SubSeq(mem'[ses'[s].buf], 1, Len(tail)) = tail ]_vars

\* C16: the final-fragment branch is taken only at the end of the stream: no
\* body byte is left unread, the whole filled region [0, bufstart+n) was
\* dispatched by it (one empty region for an empty body), the buffer is
\* released and one response written.
C16_Claim ==
    \A s \in Sessions :
        Finished(s) =>
            /\ ses[s].pos = Len(LimitedData(req[s]))
            /\ obs[s].dispatched # <<>>
            /\ Len(obs[s].dispatched[Len(obs[s].dispatched)]) = ses[s].bufstart + ses[s].n
            /\ (req[s].data = <<>> => obs[s].dispatched = << <<>> >>)
            /\ obs[s].held = {}
            /\ Len(obs[s].status) = 1

\* C17: the record-too-large path is taken only for a body that holds a
\* record strictly longer than the buffer.
C17_Claim ==
    \A s \in Sessions :
        obs[s].events # <<>> => Oversized(req[s].data) # {}

\* C18: when io.ReadFull fails with an error that is not an end of stream, the
\* step that follows puts the buffer back, writes 400 whatever return400 is and
\* hands nothing to parse; nothing is handed to parse or written afterwards.
C18_ReadError ==
    [][ \A s \in Sessions :
          /\ (ses[s].pc = "check" /\ isReadError(ses[s].err) /\ ses'[s].pc # "check") =>
                /\ ses'[s].ret = "readerr"
                /\ obs'[s].dispatched = obs[s].dispatched
                /\ obs'[s].status = Append(obs[s].status, StatusBadRequest)
                /\ obs'[s].held = {}
                /\ obs'[s].puts = obs[s].puts + 1
          /\ ses[s].ret = "readerr" =>
                /\ obs'[s].dispatched = obs[s].dispatched
                /\ obs'[s].status = obs[s].status
                /\ obs'[s].held = {} ]_vars

\* A read failed with bytes carried over and bytes of its own in the buffer
\* and the flag unset; the session has answered and returned.
C18_Witness ==
    \E s \in Sessions :
        /\ ses[s].pc = "done"
        /\ ses[s].ret = "readerr"
        /\ ~ses[s].return400
        /\ ses[s].bufstart > 0
        /\ ses[s].n > 0
        /\ obs[s].status = <<StatusBadRequest>>

\* C19: a request that declares gzip leaves serveWrite by a normal return on
\* every path, and the gzip reader, when one was created, is closed once.
C19_Claim ==
    \A s \in Sessions :
        (req[s].enc \in {"gzip", "badgzip"} /\ ses[s].pc \in {"done", "panic"}) =>
            /\ ses[s].pc = "done"
            /\ obs[s].closes = (IF ses[s].gz = "open" THEN 1 ELSE 0)

\* C20: two runs of serveWrite over the same body, whatever parts of it each
\* Read of the stream returns, hand the same regions to parse in the same
\* order and from the same places of the body, and write the same response
\* when the parser rejected in both or in neither.
C20_ChunkingIndependent ==
    \A s \in Sessions, t \in Sessions :
        (req[s] = req[t] /\ Terminated(s) /\ Terminated(t)) =>
            /\ obs[s].dispatched = obs[t].dispatched
            /\ obs[s].offsets = obs[t].offsets
            /\ ses[s].ret = ses[t].ret
            /\ obs[s].rejected = obs[t].rejected => obs[s].status = obs[t].status

\* Two finished runs over one body that took different numbers of Reads, the
\* one reading a buffer in one call and the other byte by byte, with a
\* carry-over between two dispatches.
C20_Witness ==
    \E s \in Sessions, t \in Sessions :
        /\ req[s] = req[t]
        /\ ses[s].pc = "done" /\ ses[t].pc = "done"
        /\ obs[s].reads >= obs[t].reads + MAX_LINE_SIZE - 1
        /\ Len(obs[s].dispatched) >= 2
        /\ ses[s].bufstart > 0
        /\ obs[s].status = obs[t].status

\* ------------------------------------------------------------- buffer reuse
\* The byte v came from session s's body: a newline, or one of the bytes that
\* only s's body holds.
OwnByte(s, v) == v = NL \/ v \in {req[s].data[j] : j \in 1..Len(req[s].data)}

\* C21: a session's buffer holds, in front of what the last read left off
\* (buf[:bufstart+n]), the bytes of its own body that were read last, whatever
\* the buffer held when the pool handed it out; and every byte the session
\* gave to parse is a byte of its own body, none the zero of a fresh buffer
\* nor a byte of another session.
C21_OwnBytes ==
    \A s \in Sessions :
        /\ \A k \in 1..Len(obs[s].dispatched) :
             \A j \in 1..Len(obs[s].dispatched[k]) : OwnByte(s, obs[s].dispatched[k][j])
        /\ ses[s].pc = "check" =>
             SubSeq(mem[ses[s].buf], 1, ses[s].bufstart + ses[s].n)
               = SubSeq(LimitedData(req[s]), bufOffset(ses[s]) + 1, ses[s].pos)

\* Session s read its one byte into a buffer that still held a byte of
\* session t behind it, and dispatched that one byte.
C21_Witness ==
    \E s \in Sessions, t \in Sessions :
        /\ s # t
        /\ ses[s].ret = "finished"
        /\ obs[s].dispatched = << <<100 * s + 1>> >>
        /\ mem[ses[s].buf][1] = 100 * s + 1
        /\ mem[ses[s].buf][2] # NL
        /\ OwnByte(t, mem[ses[s].buf][2])

\* ------------------------------------------------------------- mesos claims
\* The master reported a master/elected that is a number other than zero.
ReportedElected(snapshot) ==
    /\ "master/elected" \in DOMAIN snapshot
    /\ snapshot["master/elected"].kind = "number"
    /\ snapshot["master/elected"].num # 0

\* C22: when a master reports master/elected as a number, the point
\* gatherMainMetrics adds for it is tagged state = "leader" if that number is
\* not zero and "standby" if it is, whatever master_collections is.
C22_Claim ==
    ( /\ gather.pc = "done" /\ gather.role = MASTER /\ acc # <<>>
      /\ "master/elected" \in DOMAIN gather.snapshot
      /\ gather.snapshot["master/elected"].kind = "number" ) =>
        acc[Len(acc)].tags.state =
            (IF ReportedElected(gather.snapshot) THEN "leader" ELSE "standby")

=============================================================================
